---- MODULE Spec2Model ----
(***************************************************************************)
(* Model of the ETL normalisation and load pipeline of the weather-station *)
(* repository: scripts/etl_local.py (clean_and_transform) and the store    *)
(* writer scripts/database.py (class ETLDB).                               *)
(*                                                                         *)
(* Cells.  A typed cell is a one-element tuple <<v>>; a missing cell       *)
(* (None / NaN / NaT, all of which pd.isna treats alike) is the empty      *)
(* tuple.  Dates are integers yyyymmdd, times of day are integers hhmm,    *)
(* measurements are integers in tenths (23.5 is 235).  A raw CSV cell is   *)
(* a string.                                                               *)
(***************************************************************************)
EXTENDS Integers, Sequences, FiniteSets, TLC

VARIABLES
    table,      \* rows of meteo_data in the relational store
    upserted,   \* history: for each key, the row of the latest committed upsert that carried it
    snapshot,   \* rows of data/processed/processed_weather_data.parquet (<<>>: no file)
    user,       \* who runs: "none", "etl" (clean_and_transform), "direct" (a script using ETLDB)
    pc,         \* position of the user: "idle", a step of the ETL run or of the direct session, "ended"
    stage,      \* stage of the user's ETLDB: "not_connected", "connected", "table_ensured", "writing", "closed"
    todo,       \* number of raw files of the run still to be processed
    dfs,        \* the run's list of per-file frames
    call,       \* record of the user's latest insert_data call
    outcome,    \* how the user's entry point ended: "none", "returned", "raised"
    fault,      \* the failure the environment produced last: "none" or its kind
    input,      \* the raw cells of one measurement column given to the type coercer
    output      \* the coerced column (<<>> before the coercion)

vars == <<table, upserted, snapshot, user, pc, stage, todo, dfs, call, outcome, fault,
          input, output>>

----------------------------------------------------------------------------
(* Bounds of the model.                                                    *)

MaxRows == 2        \* rows of one raw file
MaxBatch == 3       \* rows of a frame handed to insert_data by a direct caller
MaxCells == 3       \* cells of a measurement column given to the type coercer alone
MaxSeries == 4      \* rows of a sorted series given to the feature augmenter alone

----------------------------------------------------------------------------
(* Cells and columns.                                                      *)

NA == <<>>

\* pd.isna / pd.notnull on one cell
IsNull(c) == c = NA

Range(s) == {s[i] : i \in DOMAIN s}

\* database.py: expected_cols of insert_data, the columns of meteo_data
expected_cols ==
    <<"data", "hora",
      "precipitacao_total", "pressao_atm_estacao", "temperatura_ar",
      "umidade_relativa", "vento_velocidade", "vento_direcao",
      "radiacao_global", "temperatura_max", "temperatura_min">>

\* etl_local.py: relevant_cols of clean_and_transform
relevant_cols ==
    <<"data", "hora", "precipitacao_total", "pressao_atm_estacao",
      "temperatura_ar", "umidade_relativa", "vento_velocidade",
      "vento_direcao", "radiacao_global", "temperatura_max", "temperatura_min">>

\* expected_cols[2:], the columns of the DO UPDATE SET clause
update_cols == Range(SubSeq(expected_cols, 3, Len(expected_cols)))

SameKey(r, s) == r.data = s.data /\ r.hora = s.hora

HasNullKey(r) == IsNull(r.data) \/ IsNull(r.hora)

\* df.dropna(subset=['data', 'hora']) on a sequence of rows
DropNaKeys(rows) == SelectSeq(rows, LAMBDA r : ~HasNullKey(r))

----------------------------------------------------------------------------
(* The store writer: ETLDB of scripts/database.py.                         *)

\* page_size of execute_values.  The source passes 1000; the model scales it
\* to 2 so that a frame of MaxBatch rows spans more than one page.
page_size == 2

Min(a, b) == IF a < b THEN a ELSE b

\* df.reindex(columns=expected_cols): the expected columns in order, a column
\* the frame lacks filled with NaN, any other column dropped
Reindex(row) ==
    [c \in Range(expected_cols) |-> IF c \in DOMAIN row THEN row[c] ELSE NA]

ReindexAll(rows) == [i \in DOMAIN rows |-> Reindex(rows[i])]

\* date.isoformat() / time.isoformat(): the text sent for a key cell
IsoFormat(c) == <<"iso", c[1]>>

\* one element of `values`: the tuple of a row in expected_cols order, key
\* cells as ISO text, a missing cell as None
RowValues(row) ==
    [i \in DOMAIN expected_cols |->
        LET c == expected_cols[i] IN
        IF c \in {"data", "hora"} /\ ~IsNull(row[c])
        THEN IsoFormat(row[c])
        ELSE row[c]]

ValuesOf(rows) == [i \in DOMAIN rows |-> RowValues(rows[i])]

\* the position of a column in cols_sql
ColIndex ==
    [c \in Range(expected_cols) |->
        CHOOSE i \in DOMAIN expected_cols : expected_cols[i] = c]

\* the row INSERT INTO meteo_data (cols_sql) VALUES (...) proposes for one
\* tuple: position i goes to column expected_cols[i]; the DATE and TIME columns
\* take the ISO text as a date and a time
PgRow(t) ==
    [c \in Range(expected_cols) |->
        LET v == t[ColIndex[c]] IN
        IF c \in {"data", "hora"} /\ ~IsNull(v) THEN <<v[2]>> ELSE v]

\* one INSERT ... ON CONFLICT statement is rejected as a whole when a proposed
\* row has a NULL key (data DATE NOT NULL, hora TIME NOT NULL of ensure_table)
\* or when two proposed rows have the same key (ON CONFLICT DO UPDATE cannot
\* affect a row a second time within one statement)
StatementFails(page) ==
    \/ \E i \in DOMAIN page : HasNullKey(PgRow(page[i]))
    \/ \E i, j \in DOMAIN page : i < j /\ SameKey(PgRow(page[i]), PgRow(page[j]))

\* Upsert with ON CONFLICT (data, hora) DO NOTHING
Upsert_do_nothing(tbl, new) ==
    IF \E r \in tbl : SameKey(r, new) THEN tbl ELSE tbl \cup {new}

\* Upsert with SET c = COALESCE(EXCLUDED.c, meteo_data.c)
Upsert_coalesce(tbl, new) ==
    LET old == {r \in tbl : SameKey(r, new)} IN
    IF old = {}
    THEN tbl \cup {new}
    ELSE (tbl \ old) \cup
         {[c \in DOMAIN new |->
              IF c \in update_cols /\ ~IsNull(new[c]) THEN new[c] ELSE r[c]] : r \in old}

\* Upsert with SET c = meteo_data.c + EXCLUDED.c
Upsert_accumulate(tbl, new) ==
    LET old == {r \in tbl : SameKey(r, new)} IN
    IF old = {}
    THEN tbl \cup {new}
    ELSE (tbl \ old) \cup
         {[c \in DOMAIN new |->
              IF c \in update_cols
              THEN (IF IsNull(new[c]) \/ IsNull(r[c]) THEN NA ELSE <<r[c][1] + new[c][1]>>)
              ELSE r[c]] : r \in old}

\* the statement as DELETE FROM meteo_data followed by the INSERT
Upsert_truncating(tbl, new) == {new}

\* ON CONFLICT (data, hora) DO UPDATE SET c = EXCLUDED.c for c of
\* expected_cols[2:]: insert when the key is absent, else overwrite the
\* non-key columns of the stored row
Upsert(tbl, new) ==
    LET old == {r \in tbl : SameKey(r, new)} IN
    IF old = {}
    THEN tbl \cup {new}
    ELSE (tbl \ old) \cup
         {[c \in DOMAIN new |-> IF c \in update_cols THEN new[c] ELSE r[c]] : r \in old}

RECURSIVE ApplyPage(_, _, _)
ApplyPage(tbl, page, i) ==
    IF i > Len(page) THEN tbl
    ELSE ApplyPage(Upsert(tbl, PgRow(page[i])), page, i + 1)

\* pg_extras.execute_values: one statement per page of page_size tuples, all
\* in the open transaction; the first rejected statement raises
RECURSIVE execute_values(_, _, _)
execute_values(tbl, values, from) ==
    IF from > Len(values) THEN [raised |-> FALSE, table |-> tbl]
    ELSE LET page == SubSeq(values, from, Min(from + page_size - 1, Len(values))) IN
         IF StatementFails(page)
         THEN [raised |-> TRUE, table |-> tbl]
         ELSE execute_values(ApplyPage(tbl, page, 1), values, from + page_size)

\* What the store does to the database call of one insert_data:
\*   "none"      it serves the call
\*   "rejected"  it rejects a statement on a live connection (for instance
\*               permission denied): execute raises, rollback succeeds
\*   "lost"      the connection is lost: execute raises and so does rollback
Faults == {"none", "rejected", "lost"}

NoCall == [active |-> FALSE]

\* CleanForInsert without the dropna
CleanForInsert_keep_null(rows) == ReindexAll(rows)

\* CleanForInsert giving up the whole frame when a key is missing
CleanForInsert_abort_on_null(rows) ==
    IF \E i \in DOMAIN rows : HasNullKey(Reindex(rows[i]))
    THEN <<>>
    ELSE ReindexAll(rows)

\* insert_data, from the reindex to the dropna: the frame in expected_cols
\* order without the rows of missing data or hora.  The frames of the model
\* carry dates and times of day (or missing cells) in the key columns, for
\* which the two isinstance checks leave the columns as they are.
CleanForInsert(rows) == DropNaKeys(ReindexAll(rows))

\* insert_data on an autocommit connection: the pages served before the
\* failing statement stay
insert_data_without_rollback(tbl, rows, flt) ==
    IF rows = <<>>
    THEN [ret |-> "False", table |-> tbl, sent |-> FALSE, values |-> <<>>]
    ELSE
    LET df_to_insert == CleanForInsert(rows)
        values == ValuesOf(df_to_insert)
        done == execute_values(tbl, values, 1)
    IN  IF df_to_insert = <<>>
        THEN [ret |-> "False", table |-> tbl, sent |-> FALSE, values |-> <<>>]
        ELSE IF flt = "lost"
        THEN [ret |-> "raised", table |-> done.table, sent |-> TRUE, values |-> values]
        ELSE IF flt = "rejected" \/ done.raised
        THEN [ret |-> "False", table |-> done.table, sent |-> TRUE, values |-> values]
        ELSE [ret |-> "True", table |-> done.table, sent |-> TRUE, values |-> values]

\* ETLDB.insert_data(df) on store content tbl under store behaviour flt.
\* ret is "True", "False" or "raised"; values is the list handed to
\* execute_values (sent tells whether the database call was issued).
insert_data(tbl, rows, flt) ==
    IF rows = <<>>
    THEN [ret |-> "False", table |-> tbl, sent |-> FALSE, values |-> <<>>]
    ELSE
    LET df_to_insert == CleanForInsert(rows)
        values == ValuesOf(df_to_insert)
        done == execute_values(tbl, values, 1)
    IN  IF df_to_insert = <<>>
        THEN [ret |-> "False", table |-> tbl, sent |-> FALSE, values |-> <<>>]
        ELSE IF flt = "lost"
        THEN [ret |-> "raised", table |-> tbl, sent |-> TRUE, values |-> values]
        ELSE IF flt = "rejected" \/ done.raised
        THEN [ret |-> "False", table |-> tbl, sent |-> TRUE, values |-> values]
        ELSE [ret |-> "True", table |-> done.table, sent |-> TRUE, values |-> values]

\* what insert_data hands back to its caller, component by component:
\* `return True` or `return False`, the bool alone (the number of rows is
\* only logged)
ReturnValue(res) == <<res.ret>>

\* history of the committed upserts: the rows a committed call carried
\* replace, key by key, what the history held (the latest row of a key wins)
Remember(log, rows, res) ==
    IF res.ret # "True" THEN log
    ELSE LET carried == CleanForInsert(rows)
             latest == {i \in DOMAIN carried :
                           \A j \in DOMAIN carried : j > i => ~SameKey(carried[i], carried[j])}
         IN  {r \in log : \A i \in DOMAIN carried : ~SameKey(r, carried[i])}
             \cup {carried[i] : i \in latest}

\* ETLDB.fetch_data("SELECT ... WHERE data = d AND hora = h"): the stored rows
\* of one key
fetch_data(tbl, d, h) == {r \in tbl : r.data = d /\ r.hora = h}

----------------------------------------------------------------------------
(* One raw file: etl_local.py, the body of `for file in csv_files`.        *)
(* A raw file is [sep, header, rows]: its delimiter, its header row and    *)
(* its data rows, every cell a text.                                       *)

encoding_options == <<"latin1", "utf-8", "iso-8859-1">>
separator_options == <<";", "\t", ",">>

\* na_values of read_csv: the texts read as missing
na_values == {"", " ", "null", "NaN", "NULL"}

\* the texts read_csv parses as a number under decimal=",", in tenths
DecimalCommaNumber(t) ==
    CASE t = "1,5" -> <<15>>
      [] t = "2,5" -> <<25>>
      [] t = "23,5" -> <<235>>
      [] t = "1010,5" -> <<10105>>
      [] t = "80" -> <<800>>
      [] t = "0" -> <<0>>
      [] t = "-9999" -> <<0 - 99990>>
      [] OTHER -> NA

\* pd.to_numeric(errors='coerce') on a text cell of an object column: the
\* decimal separator is the point, so a decimal-comma text does not parse
to_numeric_text(t) ==
    CASE t = "80" -> <<800>>
      [] t = "0" -> <<0>>
      [] t = "-9999" -> <<0 - 99990>>
      [] OTHER -> NA

\* pd.to_datetime(errors='coerce', dayfirst=True).dt.date on a text cell
to_date(t) ==
    CASE t = "01/02/2023" -> <<20230201>>
      [] t = "02/02/2023" -> <<20230202>>
      [] t = "03/02/2023" -> <<20230203>>
      [] OTHER -> NA

\* pd.to_datetime(format='%H:%M', errors='coerce').dt.time on a text cell
to_time(t) ==
    CASE t = "12:00" -> <<1200>>
      [] t = "13:00" -> <<1300>>
      [] t = "14:00" -> <<1400>>
      [] OTHER -> NA

\* one trial of the read loop: pd.read_csv(file, sep=separator, ...) followed
\* by the two checks.  latin1 decodes every byte sequence; a separator that is
\* not the file's yields a single column.
TrialReads(file, encoding, separator) ==
    /\ separator = file.sep
    /\ Len(file.rows) > 0
    /\ Len(file.header) >= 2

\* the read loop taking its first trial as read, whatever the two checks say
successful_read_unchecked(file) == TRUE

successful_read(file) ==
    \E e \in DOMAIN encoding_options, s \in DOMAIN separator_options :
        TrialReads(file, encoding_options[e], separator_options[s])

\* df.columns.str.strip().str.replace(" ", "_"): no lower-casing
NormalizeHeader_no_lower(h) ==
    CASE h = "Data" -> "Data"
      [] h = " DATA " -> "DATA"
      [] h = "Hora" -> "Hora"
      [] h = "Temperatura do Ar (°C)" -> "Temperatura_do_Ar_(°C)"
      [] h = "PRESSAO ATMOSFERICA AO NIVEL DA ESTACAO, HORARIA (mB)"
            -> "PRESSAO_ATMOSFERICA_AO_NIVEL_DA_ESTACAO,_HORARIA_(mB)"
      [] h = "UMIDADE RELATIVA DO AR, HORARIA (%)" -> "UMIDADE_RELATIVA_DO_AR,_HORARIA_(%)"
      [] h = "Estacao" -> "Estacao"
      [] OTHER -> h

\* df.columns.str.strip().str.lower().str.replace(" ", "_") on the header
\* texts of the model
NormalizeHeader(h) ==
    CASE h = "Data" -> "data"
      [] h = " DATA " -> "data"
      [] h = "Hora" -> "hora"
      [] h = "Temperatura do Ar (°C)" -> "temperatura_do_ar_(°c)"
      [] h = "PRESSAO ATMOSFERICA AO NIVEL DA ESTACAO, HORARIA (mB)"
            -> "pressao_atmosferica_ao_nivel_da_estacao,_horaria_(mb)"
      [] h = "UMIDADE RELATIVA DO AR, HORARIA (%)" -> "umidade_relativa_do_ar,_horaria_(%)"
      [] h = "Estacao" -> "estacao"
      [] OTHER -> h

\* column_mapping, applied by df.rename to the names it holds
column_mapping(n) ==
    CASE n = "precipitação_total" -> "precipitacao_total"
      [] n = "pressao_atmosferica_ao_nivel_da_estacao,_horaria_(mb)" -> "pressao_atm_estacao"
      [] n = "radiacao_global_(kj/m²)" -> "radiacao_global"
      [] n = "temperatura_do_ar_(°c)" -> "temperatura_ar"
      [] n = "umidade_relativa_do_ar,_horaria_(%)" -> "umidade_relativa"
      [] n = "vento_-_velocidade_horaria_(m/s)" -> "vento_velocidade"
      [] n = "vento_-_direção_horaria_(gr)" -> "vento_direcao"
      [] n = "temperatura_máxima_na_hora_ant._(°c)" -> "temperatura_max"
      [] n = "temperatura_mínima_na_hora_ant._(°c)" -> "temperatura_min"
      [] OTHER -> n

\* the name of column i after standardisation and renaming
ColumnName(file, i) == column_mapping(NormalizeHeader(file.header[i]))

\* available_cols: the relevant columns the file has
available_cols(file) ==
    {c \in Range(relevant_cols) : \E i \in DOMAIN file.header : ColumnName(file, i) = c}

\* two columns of the file carry the same relevant name: df[col] is then a
\* frame, not a series, and the coercion of that column raises
AmbiguousColumn(file) ==
    \E i, j \in DOMAIN file.header :
        i < j /\ ColumnName(file, i) = ColumnName(file, j)
              /\ ColumnName(file, i) \in Range(relevant_cols)

numeric_cols ==
    {"precipitacao_total", "pressao_atm_estacao", "temperatura_ar",
     "umidade_relativa", "vento_velocidade", "vento_direcao",
     "radiacao_global", "temperatura_max", "temperatura_min"}

\* read_csv types a column as numeric when every cell of it is missing or
\* parses as a number; otherwise it keeps the texts
ReadAsNumeric(cells) ==
    \A k \in DOMAIN cells : cells[k] \in na_values \/ DecimalCommaNumber(cells[k]) # NA

\* read_csv(decimal=",", na_values=...) followed by pd.to_numeric(errors=
\* 'coerce') on one measurement column
CoerceNumericColumn(cells) ==
    [k \in DOMAIN cells |->
        IF cells[k] \in na_values THEN NA
        ELSE IF ReadAsNumeric(cells) THEN DecimalCommaNumber(cells[k])
        ELSE to_numeric_text(cells[k])]

CoerceDateColumn(cells) ==
    [k \in DOMAIN cells |-> IF cells[k] \in na_values THEN NA ELSE to_date(cells[k])]

CoerceTimeColumn(cells) ==
    [k \in DOMAIN cells |-> IF cells[k] \in na_values THEN NA ELSE to_time(cells[k])]

\* the cells of the column named c, top to bottom
RawColumn(file, c) ==
    LET i == CHOOSE j \in DOMAIN file.header : ColumnName(file, j) = c
    IN  [k \in DOMAIN file.rows |-> file.rows[k][i]]

CoercedColumn(file, c) ==
    IF c = "data" THEN CoerceDateColumn(RawColumn(file, c))
    ELSE IF c = "hora" THEN CoerceTimeColumn(RawColumn(file, c))
    ELSE CoerceNumericColumn(RawColumn(file, c))

\* the typed rows of the file over relevant_cols (a column the file lacks is
\* missing in every row, as after pd.concat), before the key clean-up
TypedRows(file) ==
    [k \in DOMAIN file.rows |->
        [c \in Range(relevant_cols) |->
            IF c \in available_cols(file) THEN CoercedColumn(file, c)[k] ELSE NA]]

NoFrame == [cols |-> {}, rows |-> <<>>]

\* ProcessFile without the per-file dropna(subset=['data', 'hora'])
ProcessFile_keep_null_keys(file) ==
    IF ~successful_read(file) THEN NoFrame
    ELSE IF "data" \notin available_cols(file) \/ "hora" \notin available_cols(file)
    THEN NoFrame
    ELSE IF AmbiguousColumn(file) THEN NoFrame
    ELSE [cols |-> available_cols(file), rows |-> TypedRows(file)]

\* ProcessFile ingesting what a file without key columns has
ProcessFile_partial(file) ==
    IF ~successful_read(file) THEN NoFrame
    ELSE IF AmbiguousColumn(file) THEN NoFrame
    ELSE LET rows == IF {"data", "hora"} \subseteq available_cols(file)
                     THEN DropNaKeys(TypedRows(file))
                     ELSE TypedRows(file)
         IN  IF rows = <<>> THEN NoFrame
             ELSE [cols |-> available_cols(file), rows |-> rows]

\* the frame the file adds to dfs; NoFrame when the file is skipped (not
\* readable, no key column, an exception while coercing, no valid row)
ProcessFile(file) ==
    IF ~successful_read(file) THEN NoFrame
    ELSE IF "data" \notin available_cols(file) \/ "hora" \notin available_cols(file)
    THEN NoFrame
    ELSE IF AmbiguousColumn(file) THEN NoFrame
    ELSE LET rows == DropNaKeys(TypedRows(file)) IN
         IF rows = <<>> THEN NoFrame
         ELSE [cols |-> available_cols(file), rows |-> rows]

----------------------------------------------------------------------------
(* The combined series: etl_local.py, the `if dfs:` block.                 *)

RECURSIVE concat(_)
\* pd.concat(dfs, ignore_index=True): the rows in list order, the union of
\* the columns
concat(frames) ==
    IF frames = <<>> THEN NoFrame
    ELSE LET rest == concat(Tail(frames)) IN
         [cols |-> Head(frames).cols \cup rest.cols,
          rows |-> Head(frames).rows \o rest.rows]

\* drop_duplicates left out
drop_duplicates_none(rows) == rows

\* drop_duplicates with keep="first"
drop_duplicates_keep_first(rows) ==
    LET keep(i) == \A j \in DOMAIN rows : j < i => ~SameKey(rows[i], rows[j])
        F[i \in 0..Len(rows)] ==
            IF i = 0 THEN <<>>
            ELSE IF keep(i) THEN Append(F[i - 1], rows[i]) ELSE F[i - 1]
    IN  F[Len(rows)]

\* drop_duplicates(subset=["data", "hora"], keep="last"): a row stays when no
\* later row has its key
drop_duplicates(rows) ==
    LET keep(i) == \A j \in DOMAIN rows : j > i => ~SameKey(rows[i], rows[j])
        F[i \in 0..Len(rows)] ==
            IF i = 0 THEN <<>>
            ELSE IF keep(i) THEN Append(F[i - 1], rows[i]) ELSE F[i - 1]
    IN  F[Len(rows)]

\* the order of sort_values(["data", "hora"])
KeyLess(r, s) ==
    \/ r.data[1] < s.data[1]
    \/ r.data[1] = s.data[1] /\ r.hora[1] < s.hora[1]

RECURSIVE InsertSorted(_, _)
InsertSorted(sorted, r) ==
    IF sorted = <<>> THEN <<r>>
    ELSE IF KeyLess(r, Head(sorted)) THEN <<r>> \o sorted
    ELSE <<Head(sorted)>> \o InsertSorted(Tail(sorted), r)

\* sort_values left out
sort_values_none(rows) == rows

\* sort_values(["data", "hora"]) on rows with non-missing keys
sort_values(rows) ==
    LET F[i \in 0..Len(rows)] ==
            IF i = 0 THEN <<>> ELSE InsertSorted(F[i - 1], rows[i])
    IN  F[Len(rows)]

\* the positions up to i whatever their date: no groupby
GroupUpTo_all_dates(rows, i) == [n \in 1..i |-> n]

\* the positions of the rows of row i's date up to i (its group of
\* groupby("data")), in order
GroupUpTo(rows, i) ==
    LET idx == {j \in 1..i : rows[j].data = rows[i].data}
        F[n \in 0..i] ==
            IF n = 0 THEN <<>>
            ELSE IF n \in idx THEN Append(F[n - 1], n) ELSE F[n - 1]
    IN  F[i]

\* groupby("data")[col].diff(lag).fillna(0) at row i
GroupDiff(rows, col, lag, i) ==
    LET g == GroupUpTo(rows, i) IN
    IF Len(g) <= lag THEN <<0>>
    ELSE LET cur == rows[i][col]
             prev == rows[g[Len(g) - lag]][col]
         IN  IF IsNull(cur) \/ IsNull(prev) THEN <<0>>
             ELSE <<cur[1] - prev[1]>>

RECURSIVE SumCells(_, _, _)
SumCells(rows, col, idx) ==
    IF idx = <<>> THEN 0
    ELSE rows[Head(idx)][col][1] + SumCells(rows, col, Tail(idx))

\* the rolling mean without the fillna(0)
GroupRollingMean_no_fillna(rows, col, window, i) ==
    LET g == GroupUpTo(rows, i)
        from == IF Len(g) > window THEN Len(g) - window + 1 ELSE 1
        win == SubSeq(g, from, Len(g))
        present == SelectSeq(win, LAMBDA j : ~IsNull(rows[j][col]))
    IN  IF present = <<>> THEN NA
        ELSE <<SumCells(rows, col, present), Len(present)>>

\* groupby("data")[col].transform(rolling(window, min_periods=1).mean())
\* .fillna(0) at row i: the mean of the non-missing values among the last
\* `window` rows of the group, as the pair <<sum, count>>; <<0>> when the
\* window holds no value
GroupRollingMean(rows, col, window, i) ==
    LET g == GroupUpTo(rows, i)
        from == IF Len(g) > window THEN Len(g) - window + 1 ELSE 1
        win == SubSeq(g, from, Len(g))
        present == SelectSeq(win, LAMBDA j : ~IsNull(rows[j][col]))
    IN  IF present = <<>> THEN <<0>>
        ELSE <<SumCells(rows, col, present), Len(present)>>

feature_cols == {"pressure_change", "temp_change_3h", "humidity_trend"}

\* the three derived columns added to the sorted series
Augment(rows) ==
    [i \in DOMAIN rows |->
        [c \in Range(relevant_cols) \cup feature_cols |->
            IF c = "pressure_change" THEN GroupDiff(rows, "pressao_atm_estacao", 1, i)
            ELSE IF c = "temp_change_3h" THEN GroupDiff(rows, "temperatura_ar", 3, i)
            ELSE IF c = "humidity_trend" THEN GroupRollingMean(rows, "umidade_relativa", 6, i)
            ELSE rows[i][c]]]

\* groupby("data")[col] raises KeyError when no file brought the column
AugmentRaises(cols) ==
    \/ "pressao_atm_estacao" \notin cols
    \/ "temperatura_ar" \notin cols
    \/ "umidade_relativa" \notin cols

\* the combined series not computed before the store write
Combined_not_yet(frames) == <<>>

\* combined_df of the run: concat, drop_duplicates, dropna, sort_values and
\* the derived columns
Combined(frames) ==
    Augment(sort_values(DropNaKeys(drop_duplicates(concat(frames).rows))))

\* df_to_insert_db taken as the whole combined_df, derived columns included
DfToInsertDb_with_features(comb, cols) ==
    LET all_cols == {c \in Range(relevant_cols) : c \in cols} \cup feature_cols IN
    DropNaKeys([i \in DOMAIN comb |-> [c \in all_cols |-> comb[i][c]]])

\* df_to_insert_db: combined_df[db_cols] without rows of missing key
DfToInsertDb(comb, cols) ==
    LET db_cols == {c \in Range(relevant_cols) : c \in cols} IN
    DropNaKeys([i \in DOMAIN comb |-> [c \in db_cols |-> comb[i][c]]])

----------------------------------------------------------------------------
(* Inputs of the model.                                                    *)

\* the numbers of files data/raw/*.csv may hold in a run
FileCounts == {0, 1, 2}

DataTexts == {"01/02/2023", "02/02/2023", ""}
HoraTexts == {"12:00", "xx"}
TempTexts == {"1,5", "2,5"}

RowTexts == DataTexts \X HoraTexts \X TempTexts

RowTextSeqs(n) == UNION {[1..k -> RowTexts] : k \in 1..n}

\* a station export with every column the augmenter needs
FullFile(rs) ==
    [sep |-> ";",
     header |-> <<"Data", "Hora", "Temperatura do Ar (°C)",
                  "PRESSAO ATMOSFERICA AO NIVEL DA ESTACAO, HORARIA (mB)",
                  "UMIDADE RELATIVA DO AR, HORARIA (%)">>,
     rows |-> [k \in DOMAIN rs |-> <<rs[k][1], rs[k][2], rs[k][3], "1010,5", "80">>]]

\* an export without the pressure and humidity columns
TempFile(rs) ==
    [sep |-> ";",
     header |-> <<"Data", "Hora", "Temperatura do Ar (°C)">>,
     rows |-> [k \in DOMAIN rs |-> <<rs[k][1], rs[k][2], rs[k][3]>>]]

\* files that are skipped: no key column, an unknown delimiter, no data row,
\* two columns with the name data
SkippedFiles ==
    {[sep |-> ";", header |-> <<"Estacao", "Temperatura do Ar (°C)">>,
      rows |-> << <<"A001", "1,5">> >>],
     [sep |-> "|", header |-> <<"Data", "Hora", "Temperatura do Ar (°C)">>,
      rows |-> << <<"01/02/2023", "12:00", "1,5">> >>],
     [sep |-> ";", header |-> <<"Data", "Hora", "Temperatura do Ar (°C)">>,
      rows |-> <<>>],
     [sep |-> ";", header |-> <<"Data", " DATA ", "Hora">>,
      rows |-> << <<"01/02/2023", "02/02/2023", "12:00">> >>]}

\* exports whose samples of one date are not in time order
HourlyFiles ==
    {FullFile(<< <<"01/02/2023", "13:00", "1,5">>, <<"01/02/2023", "12:00", "2,5">> >>),
     FullFile(<< <<"02/02/2023", "12:00", "1,5">>, <<"01/02/2023", "14:00", "2,5">> >>)}

RawFiles ==
    {FullFile(rs) : rs \in RowTextSeqs(MaxRows)}
    \cup {TempFile(rs) : rs \in RowTextSeqs(1)}
    \cup HourlyFiles
    \cup SkippedFiles

\* two one-row exports (one of them without a date), for the runs that
\* alternate with direct sessions
SmallFiles ==
    {FullFile(rs) : rs \in [1..1 -> {"01/02/2023", ""} \X {"12:00"} \X {"1,5"}]}

\* the exports of FullFile and TempFile under their canonical header names
LowerFile(rs) ==
    [sep |-> ";",
     header |-> <<"data", "hora", "temperatura_ar", "pressao_atm_estacao",
                  "umidade_relativa">>,
     rows |-> [k \in DOMAIN rs |-> <<rs[k][1], rs[k][2], rs[k][3], "1010,5", "80">>]]

LowerTempFile(rs) ==
    [sep |-> ";",
     header |-> <<"data", "hora", "temperatura_ar">>,
     rows |-> [k \in DOMAIN rs |-> <<rs[k][1], rs[k][2], rs[k][3]>>]]

\* the data rows of the files of a run that keeps the files it read
RunRows ==
    {<< <<"01/02/2023", "12:00", "1,5">> >>,
     << <<"", "12:00", "1,5">>, <<"02/02/2023", "12:00", "2,5">> >>,
     << <<"01/02/2023", "xx", "1,5">> >>,
     << <<"02/02/2023", "xx", "2,5">>, <<"01/02/2023", "12:00", "2,5">> >>}

\* an export with a date column and no time-of-day column
DateOnlyFile ==
    [sep |-> ";", header |-> <<"Data", "Temperatura do Ar (°C)">>,
     rows |-> << <<"01/02/2023", "1,5">> >>]

RunFiles ==
    {FullFile(rs) : rs \in RunRows}
    \cup {LowerFile(rs) : rs \in RunRows}
    \cup {TempFile(rs) : rs \in RunRows}
    \cup {LowerTempFile(rs) : rs \in RunRows}
    \cup {DateOnlyFile}
    \cup SkippedFiles

\* what processing a file of the directory can give
RawFrames == {ProcessFile(f) : f \in RawFiles}

SmallFrames == {ProcessFile(f) : f \in SmallFiles}

DataCells == {<<20230201>>, <<20230202>>}
HoraCells == {<<1200>>}
TempCells == {<<15>>}

\* the rows a direct caller puts in a frame: every row with a typed key, a
\* row of missing date and a row of missing time of day
BatchRows ==
    [data : DataCells, hora : HoraCells, temperatura_ar : TempCells \cup {NA}]
    \cup {[data |-> NA, hora |-> <<1200>>, temperatura_ar |-> <<15>>],
          [data |-> <<20230201>>, hora |-> NA, temperatura_ar |-> <<15>>]}

Batches == UNION {[1..k -> BatchRows] : k \in 0..MaxBatch}

\* a row stored by an earlier process, with a column the exports lack
StoredRow ==
    [c \in Range(expected_cols) |->
        IF c = "data" THEN <<20230201>>
        ELSE IF c = "hora" THEN <<1200>>
        ELSE IF c = "temperatura_ar" THEN <<25>>
        ELSE IF c = "precipitacao_total" THEN <<7>>
        ELSE NA]

InitTables == {{}, {StoredRow}}

----------------------------------------------------------------------------
(* The program.                                                            *)

\* What the environment does to ETLDB():
\*   "no_url"   NEON_DB_URL is not set: ValueError before any connection
\*   "connect"  psycopg2.connect raises (unreachable store, bad credentials)
\*   "ensure"   the connection opens and CREATE TABLE IF NOT EXISTS raises
InitFaults == {"none", "no_url", "connect", "ensure"}

\* ETLDB.__init__ without the check of NEON_DB_URL: the connection is
\* attempted with an empty connection string and libpq's defaults serve it
ETLDB_init_without_url_check(k) ==
    IF k = "connect" THEN [raised |-> TRUE, stage |-> "not_connected"]
    ELSE IF k = "ensure" THEN [raised |-> TRUE, stage |-> "connected"]
    ELSE [raised |-> FALSE, stage |-> "table_ensured"]

\* ETLDB.__init__ without the call of _ensure_table
ETLDB_init_without_ensure(k) ==
    IF k = "no_url" THEN [raised |-> TRUE, stage |-> "not_connected"]
    ELSE IF k = "connect" THEN [raised |-> TRUE, stage |-> "not_connected"]
    ELSE [raised |-> FALSE, stage |-> "connected"]

\* ETLDB.__init__ under environment behaviour k
ETLDB_init(k) ==
    IF k = "no_url" THEN [raised |-> TRUE, stage |-> "not_connected"]
    ELSE IF k = "connect" THEN [raised |-> TRUE, stage |-> "not_connected"]
    ELSE IF k = "ensure" THEN [raised |-> TRUE, stage |-> "connected"]
    ELSE [raised |-> FALSE, stage |-> "table_ensured"]

\* ETLDB.close
close(st) == "closed"

ConnectionOpen == stage \in {"connected", "table_ensured", "writing"}

StartState(tbl) ==
    /\ table = tbl
    /\ upserted = tbl
    /\ input = <<>>
    /\ output = <<>>
    /\ snapshot = <<>>
    /\ user = "none"
    /\ pc = "idle"
    /\ stage = "not_connected"
    /\ todo = 0
    /\ dfs = <<>>
    /\ call = NoCall
    /\ outcome = "none"
    /\ fault = "none"

\* clean_and_transform, `db = ETLDB()` and its except clause
Connect ==
    /\ UNCHANGED <<input, output>>
    /\ pc = "idle"
    /\ \E k \in InitFaults :
        LET r == ETLDB_init(k) IN
        /\ user' = "etl"
        /\ stage' = r.stage
        /\ fault' = k
        /\ IF r.raised
           THEN pc' = "ended" /\ outcome' = "returned"
           ELSE pc' = "list" /\ outcome' = outcome
    /\ UNCHANGED <<table, upserted, snapshot, todo, dfs, call>>

\* clean_and_transform, the listing of data/raw and the no-file return
ListFiles ==
    /\ UNCHANGED <<input, output>>
    /\ pc = "list"
    /\ \E n \in FileCounts :
        IF n = 0
        THEN /\ stage' = close(stage)
             /\ pc' = "ended"
             /\ outcome' = "returned"
             /\ todo' = todo
        ELSE /\ todo' = n
             /\ pc' = "files"
             /\ UNCHANGED <<stage, outcome>>
    /\ UNCHANGED <<table, upserted, snapshot, user, dfs, call, fault>>

\* clean_and_transform, one iteration of `for file in csv_files`, for a file
\* whose processing gives one of `frames`
ProcessNextFile(frames) ==
    /\ UNCHANGED <<input, output>>
    /\ pc = "files"
    /\ todo > 0
    /\ \E frame \in frames :
        dfs' = IF frame = NoFrame THEN dfs ELSE Append(dfs, frame)
    /\ todo' = todo - 1
    /\ UNCHANGED <<table, upserted, snapshot, user, pc, stage, call, outcome, fault>>

\* clean_and_transform, from `if dfs:` to the snapshot: combine, deduplicate,
\* sort, augment and to_parquet, none of it inside a try
Combine ==
    /\ UNCHANGED <<input, output>>
    /\ pc = "files"
    /\ todo = 0
    /\ IF dfs = <<>>
       THEN /\ pc' = "close"
            /\ UNCHANGED <<snapshot, outcome, fault>>
       ELSE IF AugmentRaises(concat(dfs).cols)
       THEN /\ pc' = "ended"
            /\ outcome' = "raised"
            /\ fault' = "keyerror"
            /\ snapshot' = snapshot
       ELSE \E written \in BOOLEAN :
            IF written
            THEN /\ snapshot' = Combined(dfs)
                 /\ pc' = "store"
                 /\ UNCHANGED <<outcome, fault>>
            ELSE /\ pc' = "ended"
                 /\ outcome' = "raised"
                 /\ fault' = "io"
                 /\ snapshot' = snapshot
    /\ UNCHANGED <<table, upserted, user, stage, todo, dfs, call>>

CallRecord(pre, rows, flt, res) ==
    [active |-> TRUE, pre |-> pre, rows |-> rows, flt |-> flt,
     ret |-> res.ret, sent |-> res.sent, values |-> res.values]

\* clean_and_transform, the try block of the store write; the frame written
\* is the combined series just saved
StoreWrite ==
    /\ UNCHANGED <<input, output>>
    /\ pc = "store"
    /\ LET df_to_insert_db == DfToInsertDb(snapshot, concat(dfs).cols) IN
       IF df_to_insert_db = <<>>
       THEN UNCHANGED <<table, upserted, stage, call, fault>>
       ELSE \E flt \in Faults :
            LET res == insert_data(table, df_to_insert_db, flt) IN
            /\ table' = res.table
            /\ upserted' = Remember(upserted, df_to_insert_db, res)
            /\ call' = CallRecord(table, df_to_insert_db, flt, res)
            /\ stage' = IF res.sent THEN "writing" ELSE stage
            /\ fault' = flt
    /\ pc' = "close"
    /\ UNCHANGED <<snapshot, user, todo, dfs, outcome>>

\* clean_and_transform, `if db: db.close()` at the end
Close ==
    /\ UNCHANGED <<input, output>>
    /\ pc = "close"
    /\ stage' = close(stage)
    /\ pc' = "ended"
    /\ outcome' = "returned"
    /\ UNCHANGED <<table, upserted, snapshot, user, todo, dfs, call, fault>>

\* the process ends; the store and the snapshot file outlive it
Exit ==
    /\ UNCHANGED <<input, output>>
    /\ pc = "ended"
    /\ user' = "none"
    /\ pc' = "idle"
    /\ stage' = "not_connected"
    /\ todo' = 0
    /\ dfs' = <<>>
    /\ call' = NoCall
    /\ outcome' = "none"
    /\ fault' = "none"
    /\ UNCHANGED <<table, upserted, snapshot>>

\* a script constructs ETLDB() to use the store writer directly
OpenSession ==
    /\ UNCHANGED <<input, output>>
    /\ pc = "idle"
    /\ \E k \in InitFaults :
        LET r == ETLDB_init(k) IN
        /\ user' = "direct"
        /\ stage' = r.stage
        /\ fault' = k
        /\ IF r.raised
           THEN pc' = "ended" /\ outcome' = "raised"
           ELSE pc' = "session" /\ outcome' = outcome
    /\ UNCHANGED <<table, upserted, snapshot, todo, dfs, call>>

\* the script calls db.insert_data(df)
InsertDataCall ==
    /\ UNCHANGED <<input, output>>
    /\ pc = "session"
    /\ \E rows \in Batches, flt \in Faults :
        LET res == insert_data(table, rows, flt) IN
        /\ table' = res.table
        /\ upserted' = Remember(upserted, rows, res)
        /\ call' = CallRecord(table, rows, flt, res)
        /\ stage' = IF res.sent THEN "writing" ELSE stage
        /\ fault' = IF res.sent THEN flt ELSE "none"
    /\ pc' = "called"
    /\ UNCHANGED <<snapshot, user, todo, dfs, outcome>>

\* the call returns to the script, or its exception ends the script
CallReturn ==
    /\ UNCHANGED <<input, output>>
    /\ pc = "called"
    /\ IF call.ret = "raised"
       THEN /\ pc' = "ended"
            /\ outcome' = "raised"
            /\ UNCHANGED <<call, fault>>
       ELSE /\ pc' = "session"
            /\ call' = NoCall
            /\ fault' = "none"
            /\ outcome' = outcome
    /\ UNCHANGED <<table, upserted, snapshot, user, stage, todo, dfs>>

\* the script calls db.close()
CloseSession ==
    /\ UNCHANGED <<input, output>>
    /\ pc = "session"
    /\ stage' = close(stage)
    /\ pc' = "ended"
    /\ outcome' = "returned"
    /\ UNCHANGED <<table, upserted, snapshot, user, todo, dfs, call, fault>>

\* The store under ETL runs over one-row exports and direct sessions, process
\* after process
Init == StartState({})

Next ==
    \/ Connect
    \/ ListFiles
    \/ ProcessNextFile(SmallFrames)
    \/ Combine
    \/ StoreWrite
    \/ Close
    \/ Exit
    \/ OpenSession
    \/ InsertDataCall
    \/ CallReturn
    \/ CloseSession

Spec == Init /\ [][Next]_vars

\* One ETL run over the raw files, on a store an earlier process left
InitETL == \E tbl \in InitTables : StartState(tbl)

NextETL ==
    \/ Connect
    \/ ListFiles
    \/ ProcessNextFile(RawFrames)
    \/ Combine
    \/ StoreWrite
    \/ Close

SpecETL == InitETL /\ [][NextETL]_vars

\* clean_and_transform, one iteration of `for file in csv_files`, the files
\* read so far kept in `input`
ReadNextFile(files) ==
    /\ pc = "files"
    /\ todo > 0
    /\ \E file \in files :
        LET frame == ProcessFile(file) IN
        /\ dfs' = IF frame = NoFrame THEN dfs ELSE Append(dfs, frame)
        /\ input' = Append(input, file)
    /\ todo' = todo - 1
    /\ UNCHANGED <<table, upserted, snapshot, user, pc, stage, call, outcome, fault,
                   output>>

\* One ETL run over RunFiles
NextFiles ==
    \/ Connect
    \/ ListFiles
    \/ ReadNextFile(RunFiles)
    \/ Combine
    \/ StoreWrite
    \/ Close

SpecFiles == InitETL /\ [][NextFiles]_vars

\* frames of two pages for a direct caller: four rows with a typed key
LongBatches == [1..(2 * page_size) -> {r \in BatchRows : ~HasNullKey(r)}]

\* the script calls db.insert_data(df) with a frame of two pages
InsertLongBatch ==
    /\ pc = "session"
    /\ \E rows \in LongBatches, flt \in Faults :
        LET res == insert_data(table, rows, flt) IN
        /\ table' = res.table
        /\ upserted' = Remember(upserted, rows, res)
        /\ call' = CallRecord(table, rows, flt, res)
        /\ stage' = IF res.sent THEN "writing" ELSE stage
        /\ fault' = IF res.sent THEN flt ELSE "none"
    /\ pc' = "called"
    /\ UNCHANGED <<snapshot, user, todo, dfs, outcome, input, output>>

\* One direct session of two-page frames, on a store an earlier process left
InitSession == \E tbl \in InitTables : StartState(tbl)

NextSession ==
    \/ OpenSession
    \/ InsertLongBatch
    \/ CallReturn
    \/ CloseSession

SpecSession == InitSession /\ [][NextSession]_vars

\* The type coercer alone, on one measurement column of a raw file
CellTexts == {"23,5", "", "-9999", "abc", "80"}

CellColumns == UNION {[1..k -> CellTexts] : k \in 1..MaxCells}

InitCoerce ==
    /\ table = {}
    /\ upserted = {}
    /\ snapshot = <<>>
    /\ user = "none"
    /\ pc = "coerce"
    /\ stage = "not_connected"
    /\ todo = 0
    /\ dfs = <<>>
    /\ call = NoCall
    /\ outcome = "none"
    /\ fault = "none"
    /\ input \in CellColumns
    /\ output = <<>>

\* read_csv and pd.to_numeric on the column
CoerceColumn ==
    /\ pc = "coerce"
    /\ output' = CoerceNumericColumn(input)
    /\ pc' = "coerced"
    /\ UNCHANGED <<table, upserted, snapshot, user, stage, todo, dfs, call, outcome,
                   fault, input>>

SpecCoerce == InitCoerce /\ [][CoerceColumn]_vars

\* The feature augmenter alone, on a sorted series without duplicate keys
SeriesKeys ==
    << <<20230201, 1200>>, <<20230201, 1300>>, <<20230201, 1400>>,
       <<20230201, 1500>>, <<20230202, 1200>>, <<20230202, 1300>> >>

\* what a sample measures: pressure, temperature and humidity, each possibly
\* missing
Readings ==
    {[p |-> <<10100>>, t |-> <<150>>, h |-> <<800>>],
     [p |-> <<10105>>, t |-> <<175>>, h |-> <<700>>],
     [p |-> NA, t |-> <<160>>, h |-> NA],
     [p |-> <<10120>>, t |-> NA, h |-> NA]}

SeriesRow(key, m) ==
    [c \in Range(relevant_cols) |->
        IF c = "data" THEN <<key[1]>>
        ELSE IF c = "hora" THEN <<key[2]>>
        ELSE IF c = "pressao_atm_estacao" THEN m.p
        ELSE IF c = "temperatura_ar" THEN m.t
        ELSE IF c = "umidade_relativa" THEN m.h
        ELSE NA]

\* the positions of SeriesKeys in `chosen`, ascending
Ascending(chosen) ==
    LET F[n \in 0..Len(SeriesKeys)] ==
            IF n = 0 THEN <<>>
            ELSE IF n \in chosen THEN Append(F[n - 1], n) ELSE F[n - 1]
    IN  F[Len(SeriesKeys)]

\* the ascending choices of at most max keys
KeySeqs(max) ==
    {Ascending(chosen) :
        chosen \in {c \in SUBSET (1..Len(SeriesKeys)) :
                       Cardinality(c) >= 1 /\ Cardinality(c) <= max}}

\* the sorted series of at most max rows
SortedSeries(max) ==
    UNION {{[k \in DOMAIN keys |-> SeriesRow(SeriesKeys[keys[k]], ms[k])] :
              ms \in [DOMAIN keys -> Readings]} :
           keys \in KeySeqs(max)}

InitAugment ==
    /\ table = {}
    /\ upserted = {}
    /\ snapshot = <<>>
    /\ user = "none"
    /\ pc = "augment"
    /\ stage = "not_connected"
    /\ todo = 0
    /\ dfs = <<>>
    /\ call = NoCall
    /\ outcome = "none"
    /\ fault = "none"
    /\ input \in SortedSeries(MaxSeries)
    /\ output = <<>>

\* the three groupby("data") assignments on the sorted series
AugmentSeries ==
    /\ pc = "augment"
    /\ output' = Augment(input)
    /\ pc' = "augmented"
    /\ UNCHANGED <<table, upserted, snapshot, user, stage, todo, dfs, call, outcome,
                   fault, input>>

SpecAugment == InitAugment /\ [][AugmentSeries]_vars

----------------------------------------------------------------------------
(* The claims.                                                             *)

\* the typed rows of the latest call's frame, in expected_cols order
CallFrame == ReindexAll(call.rows)

\* row i is the last row of the sequence with its key
LastOfKey(rows, i) == \A j \in DOMAIN rows : j > i => ~SameKey(rows[i], rows[j])

UniqueKeys(rows) == \A i, j \in DOMAIN rows : i < j => ~SameKey(rows[i], rows[j])

\* C1: after any sequence of ETL runs and insert_data calls, whatever the
\* input rows, meteo_data holds no row whose data or hora is null, and no
\* such row is handed to the database call: it is dropped before the write.
C1_NoNullKeyPersisted ==
    /\ \A r \in table : ~HasNullKey(r)
    /\ call.active => \A i \in DOMAIN call.values : ~HasNullKey(PgRow(call.values[i]))

\* a committed call whose frame carried a row of missing key
C1_Witness ==
    /\ call.active
    /\ call.ret = "True"
    /\ \E i \in DOMAIN CallFrame : HasNullKey(CallFrame[i])
    /\ table # call.pre

\* C2: the pair (data, hora) is unique in the combined series written to the
\* snapshot, in the frame the run hands to insert_data, and in meteo_data.
C2_KeyUnique ==
    /\ UniqueKeys(snapshot)
    /\ (user = "etl" /\ call.active) => UniqueKeys(call.rows)
    /\ \A r, q \in table : SameKey(r, q) => r = q

\* a run whose files repeat a key, after its committed write onto a store
\* that already held one of its keys
C2_Witness ==
    /\ user = "etl"
    /\ call.active
    /\ call.ret = "True"
    /\ ~UniqueKeys(concat(dfs).rows)
    /\ Len(call.rows) > 1
    /\ \E q \in call.pre : \E i \in DOMAIN call.rows : SameKey(q, call.rows[i])

\* C3: for every key that two or more rows of the concatenated per-file
\* frames carry, exactly one row of the deduplicated series has the key, and
\* it is the row that comes last in file order (and last within its file).
C3_LastOccurrenceSurvives ==
    pc = "store" =>
        LET all == concat(dfs).rows IN
        \A i \in DOMAIN all :
            (\E j \in DOMAIN all : j # i /\ SameKey(all[i], all[j])) =>
                LET last == CHOOSE m \in DOMAIN all :
                                /\ SameKey(all[m], all[i])
                                /\ \A n \in DOMAIN all : SameKey(all[n], all[i]) => n <= m
                    kept == {k \in DOMAIN snapshot : SameKey(snapshot[k], all[i])}
                IN  /\ Cardinality(kept) = 1
                    /\ \A k \in kept : \A c \in Range(relevant_cols) :
                           snapshot[k][c] = all[last][c]

\* two files: the second repeats a key within itself with two temperatures,
\* and the first carries that key too
C3_Witness ==
    /\ pc = "store"
    /\ Len(dfs) = 2
    /\ \E i, j \in DOMAIN dfs[2].rows :
          /\ i < j
          /\ SameKey(dfs[2].rows[i], dfs[2].rows[j])
          /\ dfs[2].rows[i].temperatura_ar # dfs[2].rows[j].temperatura_ar
          /\ \E k \in DOMAIN dfs[1].rows :
                /\ SameKey(dfs[1].rows[k], dfs[2].rows[j])
                /\ dfs[1].rows[k].temperatura_ar # dfs[2].rows[j].temperatura_ar

\* C4 as stated: after a committed insert_data, for each row of the frame
\* with a non-null key, the table holds a row of that key (inserted if it was
\* absent) whose non-key columns are the incoming values, nulls included.
C4_EveryRowOverwrites ==
    (call.active /\ call.ret = "True") =>
        \A i \in DOMAIN CallFrame :
            ~HasNullKey(CallFrame[i]) =>
                \E q \in table :
                    /\ SameKey(q, CallFrame[i])
                    /\ \A c \in update_cols : q[c] = CallFrame[i][c]

\* C4 amended: the same for each row that is the last of the frame with its
\* key; a committed frame repeats a key only across pages of page_size rows,
\* and the later row then overwrites the earlier one.
C4_LastRowOverwrites ==
    (call.active /\ call.ret = "True") =>
        \A i \in DOMAIN CallFrame :
            (~HasNullKey(CallFrame[i]) /\ LastOfKey(CallFrame, i)) =>
                /\ \E q \in table :
                      /\ SameKey(q, CallFrame[i])
                      /\ \A c \in update_cols : q[c] = CallFrame[i][c]
                /\ \A q \in call.pre :
                      (\A i2 \in DOMAIN CallFrame : ~SameKey(q, CallFrame[i2])) => q \in table

\* a committed call that overwrote a stored temperature with null and
\* inserted a row of a key the table did not hold
C4_Witness ==
    /\ call.active
    /\ call.ret = "True"
    /\ \E q \in call.pre : \E i \in DOMAIN CallFrame :
          /\ SameKey(q, CallFrame[i])
          /\ LastOfKey(CallFrame, i)
          /\ ~IsNull(q.temperatura_ar)
          /\ IsNull(CallFrame[i].temperatura_ar)
    /\ \E i \in DOMAIN CallFrame :
          /\ ~HasNullKey(CallFrame[i])
          /\ \A q \in call.pre : ~SameKey(q, CallFrame[i])

\* C5: calling insert_data again with the frame of the call just served
\* leaves meteo_data as that call left it.
C5_Idempotent ==
    (call.active /\ call.flt = "none") =>
        insert_data(table, call.rows, "none").table = table

\* a committed call that changed a stored row and added another
C5_Witness ==
    /\ call.active
    /\ call.flt = "none"
    /\ call.ret = "True"
    /\ \E q \in call.pre : q \notin table
    /\ Cardinality(table) > Cardinality(call.pre)

\* C6: reading a key back from meteo_data returns exactly the values of the
\* most recent committed upsert that carried the key, nulls included.
C6_RoundTrip ==
    /\ \A u \in upserted : fetch_data(table, u.data, u.hora) = {u}
    /\ \A r \in table : \E u \in upserted : SameKey(u, r)

\* a key upserted with a temperature and then with null, read back as null
C6_Witness ==
    /\ call.active
    /\ call.ret = "True"
    /\ \E u \in upserted : \E q \in call.pre :
          /\ SameKey(u, q)
          /\ ~IsNull(q.temperatura_ar)
          /\ IsNull(u.temperatura_ar)
          /\ fetch_data(table, u.data, u.hora) = {u}

\* C7 as stated: an ETL run whose ETLDB was constructed (it holds an open
\* store connection) has closed it when the run ends, on every path: success,
\* no input files, a failing file, a failure while combining or writing the
\* snapshot, and a failing store write.
C7_ClosedWhenRunEnds ==
    (user = "etl" /\ pc = "ended" /\ fault \notin {"no_url", "connect", "ensure"})
        => stage = "closed"

\* C8 as stated: a connectivity or authorization failure of the store, at
\* connect time or during the upsert, ends the ETL run with an error raised
\* to its caller, not with a normal return.
C8_StoreFailureSurfaced ==
    (user = "etl" /\ pc = "ended" /\ fault \in {"connect", "ensure", "rejected", "lost"})
        => outcome = "raised"

\* the rows of the latest call's frame that have both key cells
CallValid == SelectSeq(CallFrame, LAMBDA r : r.data # NA /\ r.hora # NA)

\* C9: given a frame where some rows have a null data or hora and at least
\* one row has both, insert_data issues the database call without the
\* null-key rows, and the call fares as it would for the remaining rows
\* alone: when it commits, every remaining row's key is in the table.
C9_NullKeyRowsSkipped ==
    (call.active /\ CallValid # <<>> /\ Len(CallValid) < Len(CallFrame)) =>
        /\ call.sent
        /\ Len(call.values) = Len(CallValid)
        /\ \A i \in DOMAIN CallValid : PgRow(call.values[i]) = CallValid[i]
        /\ LET alone == insert_data(call.pre, CallValid, call.flt) IN
              call.ret = alone.ret /\ table = alone.table
        /\ call.ret = "True" =>
              \A i \in DOMAIN CallValid : \E q \in table : SameKey(q, CallValid[i])

\* a committed call of two valid rows and a null-key row
C9_Witness ==
    /\ call.active
    /\ Len(CallValid) = 2
    /\ Len(CallFrame) = 3
    /\ call.ret = "True"
    /\ Cardinality(table) = 2

\* C10 as stated: a decimal-comma cell such as "23,5" is coerced to 23.5, and
\* an unparsable or sentinel cell (empty, "-9999", other text) to missing.
C10_CoercionOfCells ==
    pc = "coerced" =>
        \A k \in DOMAIN input :
            /\ input[k] = "23,5" => output[k] = <<235>>
            /\ input[k] \in {"", "-9999", "abc"} => output[k] = NA

\* the positions of the series whose date is the date of row i
SameDate(rows, i) == {j \in DOMAIN rows : rows[j].data = rows[i].data}

\* current minus previous, missing when either is
CellMinus(a, b) == IF IsNull(a) \/ IsNull(b) THEN NA ELSE <<a[1] - b[1]>>

\* C11 as stated: in the augmented series, pressure_change of the first
\* sample of a date is exactly 0, and of every other sample it is the
\* sample's station pressure minus that of the previous sample of the date,
\* also where a pressure is missing.
C11_PressureChange ==
    pc = "augmented" =>
        \A i \in DOMAIN input :
            IF \E j \in SameDate(input, i) : j < i
            THEN output[i].pressure_change =
                     CellMinus(input[i].pressao_atm_estacao, input[i - 1].pressao_atm_estacao)
            ELSE output[i].pressure_change = <<0>>

\* the positions of the (up to `window`) samples of row i's date ending at i
Trailing(rows, i, window) ==
    {j \in SameDate(rows, i) :
        j <= i /\ Cardinality({m \in SameDate(rows, i) : j <= m /\ m <= i}) <= window}

\* C12: humidity_trend is never null in the augmented series, and for a row
\* with a non-null relative humidity among the trailing six samples of its
\* date it is the mean of those values.
C12_HumidityTrendNeverNull ==
    pc = "augmented" =>
        \A i \in DOMAIN input :
            LET known == {j \in Trailing(input, i, 6) : ~IsNull(input[j].umidade_relativa)} IN
            /\ ~IsNull(output[i].humidity_trend)
            /\ known # {} =>
                  /\ Len(output[i].humidity_trend) = 2
                  /\ output[i].humidity_trend[2] = Cardinality(known)

\* a date whose first sample has no humidity and whose second has one, with a
\* third sample that has none of its own
C12_Witness ==
    /\ pc = "augmented"
    /\ \E i \in DOMAIN input :
          /\ i + 2 \in SameDate(input, i)
          /\ IsNull(input[i].umidade_relativa)
          /\ output[i].humidity_trend = <<0>>
          /\ ~IsNull(input[i + 1].umidade_relativa)
          /\ IsNull(input[i + 2].umidade_relativa)
          /\ output[i + 2].humidity_trend = <<input[i + 1].umidade_relativa[1], 1>>

\* the rows of a date, in series order
OfDate(rows, d) == SelectSeq(rows, LAMBDA r : r.data = d)

\* the number of rows of row i's date up to row i
RankInDate(rows, i) == Cardinality({j \in SameDate(rows, i) : j <= i})

\* C13: the derived features of a row depend only on the rows of its date:
\* they are those the augmenter gives the row when the series holds the rows
\* of that date alone, so two series agreeing on a date agree on its features.
C13_NoCrossDateLeakage ==
    pc = "augmented" =>
        \A i \in DOMAIN input :
            LET alone == Augment(OfDate(input, input[i].data)) IN
            \A c \in feature_cols :
                output[i][c] = alone[RankInDate(input, i)][c]

\* two dates of two samples each, the second date with a pressure change
\* and the first with other pressures
C13_Witness ==
    /\ pc = "augmented"
    /\ Len(input) = 4
    /\ input[2].data = input[1].data
    /\ input[3].data # input[2].data
    /\ input[4].data = input[3].data
    /\ output[4].pressure_change = <<5>>
    /\ output[2].pressure_change = <<20>>
    /\ output[4].humidity_trend = <<1500, 2>>
    /\ output[2].humidity_trend = <<800, 1>>

\* (data, hora) of r comes strictly before that of s
KeyBefore(r, s) ==
    \/ r.data[1] < s.data[1]
    \/ r.data[1] = s.data[1] /\ r.hora[1] < s.hora[1]

\* C15: the series the augmenter consumes and the snapshot stores is sorted
\* ascending by (data, hora): of two consecutive rows the earlier one's key
\* is strictly less than the later one's.
C15_SortedAscending ==
    \A i \in DOMAIN snapshot :
        i < Len(snapshot) => KeyBefore(snapshot[i], snapshot[i + 1])

\* a snapshot of three rows or more, two of them of one date, from files
\* whose rows came out of order both by date and by time of day
C15_Witness ==
    /\ pc = "store"
    /\ Len(snapshot) >= 3
    /\ \E i \in DOMAIN snapshot : i < Len(snapshot) /\ snapshot[i].data = snapshot[i + 1].data
    /\ LET all == concat(dfs).rows IN
       /\ \E i, j \in DOMAIN all :
             i < j /\ all[j].data = all[i].data /\ all[j].hora[1] < all[i].hora[1]
       /\ \E i, j \in DOMAIN all : i < j /\ all[j].data[1] < all[i].data[1]

\* C16: the derived columns go to the snapshot only: every frame the run
\* passes to insert_data, every tuple of the statement and every stored row
\* carries the key and canonical measurement columns and nothing else.
C16_DerivedColumnsNotStored ==
    /\ (user = "etl" /\ call.active) =>
          /\ \A i \in DOMAIN call.rows :
                DOMAIN call.rows[i] \cap feature_cols = {}
          /\ \A i \in DOMAIN call.rows :
                DOMAIN call.rows[i] \subseteq Range(relevant_cols)
          /\ \A i \in DOMAIN call.values : Len(call.values[i]) = Len(expected_cols)
    /\ \A r \in table : DOMAIN r = Range(expected_cols)

\* a run whose snapshot carries a derived column and whose store write was
\* committed
C16_Witness ==
    /\ user = "etl"
    /\ call.active
    /\ call.ret = "True"
    /\ snapshot # <<>>
    /\ \A i \in DOMAIN snapshot : feature_cols \subseteq DOMAIN snapshot[i]
    /\ \E i \in DOMAIN snapshot : snapshot[i].humidity_trend = <<800, 1>>
    /\ Cardinality(table) >= Len(snapshot)

\* C19: when NEON_DB_URL is absent, the construction of ETLDB fails before
\* any connection attempt and the run ends there: no raw file read, no
\* snapshot written, no row written.
C19_NoUrlIsStartupError ==
    (user = "etl" /\ fault = "no_url") =>
        /\ pc = "ended"
        /\ stage = "not_connected"
        /\ todo = 0
        /\ dfs = <<>>
        /\ snapshot = <<>>
        /\ ~call.active
        /\ table \in InitTables
        /\ table = upserted

\* a run ended by the missing connection string, the stored row untouched
C19_Witness ==
    /\ user = "etl"
    /\ fault = "no_url"
    /\ pc = "ended"
    /\ outcome = "returned"
    /\ table = {StoredRow}

\* C14: every row of the per-file frames that are concatenated, hence every
\* row that reaches the deduplication, has a date and a time of day: a row
\* with a missing key part was dropped from its file's frame, and none is in
\* the deduplicated series.
C14_KeysPresentBeforeDedup ==
    /\ \A k \in DOMAIN dfs : \A i \in DOMAIN dfs[k].rows :
          ~IsNull(dfs[k].rows[i].data) /\ ~IsNull(dfs[k].rows[i].hora)
    /\ \A i \in DOMAIN concat(dfs).rows :
          ~IsNull(concat(dfs).rows[i].data) /\ ~IsNull(concat(dfs).rows[i].hora)
    /\ \A i \in DOMAIN snapshot :
          ~IsNull(snapshot[i].data) /\ ~IsNull(snapshot[i].hora)

\* two files read, each with a row of missing date or time of day next to a
\* valid row, both in the combined series
C14_Witness ==
    /\ pc = "store"
    /\ Len(input) = 2
    /\ Len(dfs) = 2
    /\ \E i \in DOMAIN input[1].rows : input[1].rows[i][1] = ""
    /\ \E i \in DOMAIN input[2].rows : input[2].rows[i][2] = "xx"
    /\ Len(input[1].rows) > Len(dfs[1].rows)
    /\ Len(input[2].rows) > Len(dfs[2].rows)
    /\ Len(snapshot) = 2

\* the spellings of the date and time-of-day headers
DateHeaders == {"Data", " DATA ", "data"}
HoraHeaders == {"Hora", "hora"}

\* the file has neither a date nor a time-of-day column
LacksKeyColumns(file) ==
    \A i \in DOMAIN file.header : file.header[i] \notin DateHeaders \cup HoraHeaders

\* the step of the run that reads one more file
ReadsFile == pc = "files" /\ Len(input') = Len(input) + 1

\* C17: reading a file that has neither the date nor the time-of-day column
\* after header mapping adds no row to the frames to combine, and the run goes
\* on to the remaining files.
C17_FileWithoutKeysRejected ==
    [][(ReadsFile /\ LacksKeyColumns(input'[Len(input')])) =>
          /\ dfs' = dfs
          /\ pc' = "files"
          /\ todo' = todo - 1
          /\ outcome' = outcome]_vars

\* a file without key columns read first, then a good file whose rows made
\* the combined series
C17_Witness ==
    /\ pc = "store"
    /\ Len(input) = 2
    /\ LacksKeyColumns(input[1])
    /\ Len(input[1].rows) > 0
    /\ Len(dfs) = 1
    /\ Len(snapshot) = Len(dfs[1].rows)

\* no encoding/delimiter combination reads the file into two columns or
\* more, or two of its headers name the date: its normalisation raises
Unparsable(file) ==
    \/ file.sep \notin Range(separator_options)
    \/ \E i, j \in DOMAIN file.header :
          i < j /\ file.header[i] \in DateHeaders /\ file.header[j] \in DateHeaders

\* the file reads, has its key columns first and second, and row k has both
ValidRow(file, k) ==
    /\ ~Unparsable(file)
    /\ Len(file.header) >= 2
    /\ file.header[1] \in DateHeaders
    /\ file.header[2] \in HoraHeaders
    /\ to_date(file.rows[k][1]) # NA
    /\ to_time(file.rows[k][2]) # NA

\* C18: a parse error is file-scoped: reading a file that no delimiter reads,
\* or whose normalisation raises, adds no row and does not end the run, and
\* the valid rows of every other file read are in the combined series.
C18_ParseErrorIsFileScoped ==
    /\ [][(ReadsFile /\ Unparsable(input'[Len(input')])) =>
             /\ dfs' = dfs
             /\ pc' = "files"
             /\ todo' = todo - 1
             /\ outcome' = outcome]_vars
    /\ [](pc = "store" =>
             \A k \in DOMAIN input : \A i \in DOMAIN input[k].rows :
                 ValidRow(input[k], i) =>
                     \E j \in DOMAIN snapshot :
                         /\ snapshot[j].data = to_date(input[k].rows[i][1])
                         /\ snapshot[j].hora = to_time(input[k].rows[i][2]))

\* a file of unknown delimiter read first, then a good file whose rows made
\* the combined series
C18_Witness ==
    /\ pc = "store"
    /\ Len(input) = 2
    /\ input[1].sep = "|"
    /\ Len(input[1].rows) > 0
    /\ \E i \in DOMAIN input[2].rows : ValidRow(input[2], i)
    /\ Len(dfs) = 1
    /\ snapshot # <<>>

\* the canonical field a raw header spells
FieldOf(h) ==
    CASE h \in DateHeaders -> "data"
      [] h \in HoraHeaders -> "hora"
      [] h \in {"Temperatura do Ar (°C)", "temperatura_ar"} -> "temperatura_ar"
      [] h \in {"PRESSAO ATMOSFERICA AO NIVEL DA ESTACAO, HORARIA (mB)",
                "pressao_atm_estacao"} -> "pressao_atm_estacao"
      [] h \in {"UMIDADE RELATIVA DO AR, HORARIA (%)", "umidade_relativa"}
            -> "umidade_relativa"
      [] OTHER -> "none"

\* C20: two raw headers of the same field get the same canonical name: every
\* header of a file read is named by its field, and the header rows
\* "Data;Hora;Temperatura do Ar (°C)" and "data;hora;temperatura_ar" both give
\* a frame of the columns data, hora, temperatura_ar.
C20_HeadersNormalised ==
    /\ \A k \in DOMAIN input : \A i \in DOMAIN input[k].header :
          FieldOf(input[k].header[i]) # "none" =>
              ColumnName(input[k], i) = FieldOf(input[k].header[i])
    /\ \A k \in DOMAIN input :
          input[k].header \in {<<"Data", "Hora", "Temperatura do Ar (°C)">>,
                               <<"data", "hora", "temperatura_ar">>} =>
              available_cols(input[k]) = {"data", "hora", "temperatura_ar"}
    /\ (Len(dfs) = Len(input)) =>
          \A k \in DOMAIN dfs :
              dfs[k].cols = {FieldOf(input[k].header[i]) : i \in DOMAIN input[k].header}
                                \cap Range(relevant_cols)

\* the two header rows read in one run, with the same data rows, gave the
\* same frame
C20_Witness ==
    /\ pc = "files"
    /\ Len(input) = 2
    /\ input[1].header = <<"Data", "Hora", "Temperatura do Ar (°C)">>
    /\ input[2].header = <<"data", "hora", "temperatura_ar">>
    /\ input[1].rows = input[2].rows
    /\ Len(dfs) = 2
    /\ dfs[1] = dfs[2]
    /\ dfs[1].cols = {"data", "hora", "temperatura_ar"}

\* C21 as stated: insert_data returns a success/failure signal and a count
\* of the rows affected.
C21_ReturnsSignalAndCount ==
    (call.active /\ call.ret \in {"True", "False"}) =>
        LET v == ReturnValue(insert_data(call.pre, call.rows, call.flt)) IN
        /\ Len(v) = 2
        /\ v[1] = call.ret
        /\ v[2] = (IF call.ret = "True" THEN Len(call.values) ELSE 0)

\* the step commits an upsert whose frame carries the key of r
SupersededBy(r) ==
    /\ ~call.active
    /\ call'.active
    /\ call'.ret = "True"
    /\ \E i \in DOMAIN call'.rows : SameKey(Reindex(call'.rows[i]), r)

\* C22: the keys stored in meteo_data never shrink: every step keeps a row
\* of each stored key, and a stored row changes only in a step that commits
\* an upsert carrying its key.
C22_KeysNeverShrink ==
    [][\A r \in table :
          \E q \in table' : SameKey(q, r) /\ (q # r => SupersededBy(r))]_vars

\* a committed call that superseded one stored row, left another as it was
\* and added none
C22_Witness ==
    /\ call.active
    /\ call.ret = "True"
    /\ Cardinality(call.pre) = 2
    /\ Cardinality(table) = 2
    /\ \E r \in call.pre : r \in table
    /\ \E r \in call.pre : r \notin table

\* C23 as stated: a missing measurement stays missing through feature
\* computation: a derived value that would be computed from a missing
\* station pressure, air temperature or relative humidity is missing, not a
\* number.
C23_MissingPropagates ==
    pc = "augmented" =>
        \A i \in DOMAIN input :
            /\ (/\ i - 1 \in SameDate(input, i)
                /\ \/ IsNull(input[i].pressao_atm_estacao)
                   \/ IsNull(input[i - 1].pressao_atm_estacao))
                  => IsNull(output[i].pressure_change)
            /\ (/\ i - 3 \in SameDate(input, i)
                /\ \/ IsNull(input[i].temperatura_ar)
                   \/ IsNull(input[i - 3].temperatura_ar))
                  => IsNull(output[i].temp_change_3h)
            /\ (\A j \in Trailing(input, i, 6) : IsNull(input[j].umidade_relativa))
                  => IsNull(output[i].humidity_trend)

\* how far a stage is along not connected, connected, table ensured,
\* writing, closed
StageRank(st) ==
    CASE st = "not_connected" -> 0
      [] st = "connected" -> 1
      [] st = "table_ensured" -> 2
      [] st = "writing" -> 3
      [] st = "closed" -> 4

\* the step issues the database call of an upsert
IssuesUpsert == ~call.active /\ call'.active /\ call'.sent

\* C24: within an ETL run the store writer only moves forward through not
\* connected, connected, table ensured, writing, closed; an upsert is issued
\* with the table ensured, after every file was processed, at most once, and
\* never on a closed connection; writing is entered only by an upsert.
C24_StoreWriterMovesForward ==
    [][/\ StageRank(stage) <= StageRank(stage')
       /\ IssuesUpsert =>
             /\ stage = "table_ensured"
             /\ stage' = "writing"
             /\ pc = "store"
             /\ todo = 0
       /\ (stage' = "writing" /\ stage # "writing") => IssuesUpsert
       /\ call.active => call' = call]_vars

\* a run of two files that went through every stage and ended closed
C24_Witness ==
    /\ user = "etl"
    /\ pc = "ended"
    /\ stage = "closed"
    /\ Len(dfs) = 2
    /\ call.active
    /\ call.sent
    /\ call.ret = "True"

\* the keys the frames to combine carry
KeysOf(rows) == {<<rows[i].data, rows[i].hora>> : i \in DOMAIN rows}

\* C26: the snapshot is written before the store write is attempted and
\* whatever its outcome: when the run reaches the store write the snapshot
\* holds the combined series, and no later step (a failing, skipped or
\* committed store write, the close) changes it.
C26_SnapshotBeforeStoreWrite ==
    [][/\ pc = "store" =>
             /\ snapshot # <<>>
             /\ KeysOf(snapshot) = KeysOf(concat(dfs).rows)
             /\ ~call.active
       /\ pc \in {"store", "close"} => snapshot' = snapshot
       /\ call'.active => snapshot' # <<>>]_vars

\* a run that ended after a failed store write, its snapshot holding an
\* observation meteo_data does not
C26_Witness ==
    /\ user = "etl"
    /\ pc = "ended"
    /\ stage = "closed"
    /\ call.active
    /\ call.ret = "False"
    /\ \E i \in DOMAIN snapshot :
          \A r \in table : ~SameKey(r, snapshot[i])

\* C25 as stated: if the database call of insert_data fails, insert_data
\* returns False and meteo_data holds exactly what it held before the call.
C25_FailedBatchReturnsFalse ==
    (call.active /\ call.sent /\ call.ret # "True") =>
        /\ call.ret = "False"
        /\ table = call.pre

\* C25 amended: if the database call fails, meteo_data holds exactly what it
\* held before the call, no page of the batch committed; insert_data returns
\* False when the rollback is served, and raises when the connection is lost
\* and the rollback raises too.
C25_FailedBatchAllOrNothing ==
    (call.active /\ call.sent /\ call.ret # "True") =>
        /\ table = call.pre
        /\ upserted = call.pre
        /\ call.flt # "lost" => call.ret = "False"
        /\ call.flt = "lost" => call.ret = "raised"

\* a call whose first page the store served, with a change to a stored row
\* and a new row, and whose second page it rejected for its repeated key
C25_Witness ==
    /\ call.active
    /\ call.sent
    /\ call.flt = "none"
    /\ call.ret = "False"
    /\ Len(call.values) = 2 * page_size
    /\ ~StatementFails(SubSeq(call.values, 1, page_size))
    /\ StatementFails(SubSeq(call.values, page_size + 1, 2 * page_size))
    /\ ApplyPage(call.pre, SubSeq(call.values, 1, page_size), 1) # call.pre
    /\ call.pre # {}
    /\ table = call.pre

====
